---------------------------- MODULE Spec2Model ----------------------------
(***************************************************************************)
(* A model of sims4_dlc_manager.py: the directory scanners, the toggle     *)
(* engine, the mod installer and the backup/restore engine, over an        *)
(* explicit filesystem.                                                    *)
(*                                                                         *)
(* A file or directory name is a sequence of one-character strings, so     *)
(* that str.endswith, str.startswith, str.lower and slicing are computed   *)
(* as Python computes them.  A path is a sequence of names, from the drive *)
(* root.  The filesystem is a function from the paths that exist to their  *)
(* nodes; lookups are case-insensitive and names are case-preserving, as   *)
(* on the Windows volumes the program is written for (it imports winreg).  *)
(***************************************************************************)
EXTENDS Integers, Sequences, FiniteSets, TLC

VARIABLES
    fs,               \* the filesystem: [existing paths -> node]
    now,              \* the wall clock, in seconds (datetime.now())
    archives,         \* the archive files the user can pick in a file dialog
    game_path_var,    \* tk.StringVar bound to the path entry (line 823)
    current_dlc_list, \* line 825
    dlc_scanned_in,   \* the game path current_dlc_list was scanned in
    current_mod_list, \* line 826
    dlc_sel,          \* dlc_listbox.curselection(): 0 = nothing selected
    mod_sel,          \* mods_listbox.curselection(): 0 = nothing selected
    last,             \* what the last handler did and reported to the user
    prev,             \* what is remembered of the handler before the last one
    pre_fs            \* the filesystem before the last handler ran

vars == <<fs, now, archives, game_path_var, current_dlc_list, dlc_scanned_in,
          current_mod_list, dlc_sel, mod_sel, last, prev, pre_fs>>

---------------------------------------------------------------------------
(* Strings *)

UpperChars == <<"A","B","C","D","E","F","G","H","I","J","K","L","M",
                "N","O","P","Q","R","S","T","U","V","W","X","Y","Z">>
LowerChars == <<"a","b","c","d","e","f","g","h","i","j","k","l","m",
                "n","o","p","q","r","s","t","u","v","w","x","y","z">>

\* The characters of the model in code-point order (str comparison).
CodePoints == <<".","0","1","2","3","4","5","6","7","8","9">> \o UpperChars
              \o <<"_">> \o LowerChars

Chars == {CodePoints[i] : i \in 1..Len(CodePoints)}

OrdOf == [c \in Chars |-> CHOOSE i \in 1..Len(CodePoints) : CodePoints[i] = c]
Ord(c) == OrdOf[c]

LowerOf ==
    [c \in Chars |->
        IF \E i \in 1..Len(UpperChars) : UpperChars[i] = c
        THEN LowerChars[CHOOSE i \in 1..Len(UpperChars) : UpperChars[i] = c]
        ELSE c]
LowerChar(c) == LowerOf[c]

\* str.lower()
Lower(s) == [i \in 1..Len(s) |-> LowerChar(s[i])]

\* The element of a one-element set.  Only({F(x) : x \in {e}}) is F(e) with
\* e evaluated once.
Only(S) == CHOOSE x \in S : TRUE

\* str.startswith / str.endswith
StartsWith(s, p) == Len(p) <= Len(s) /\ SubSeq(s, 1, Len(p)) = p
EndsWith(s, p) ==
    Len(p) <= Len(s) /\ SubSeq(s, Len(s) - Len(p) + 1, Len(s)) = p

\* s[:-n] for n > 0
DropLast(s, n) == IF n >= Len(s) THEN <<>> ELSE SubSeq(s, 1, Len(s) - n)

\* s < t for str: code points, then length
RECURSIVE StrLess(_, _)
StrLess(s, t) ==
    IF t = <<>> THEN FALSE
    ELSE IF s = <<>> THEN TRUE
    ELSE IF Ord(Head(s)) # Ord(Head(t)) THEN Ord(Head(s)) < Ord(Head(t))
    ELSE StrLess(Tail(s), Tail(t))

DISABLED_SUFFIX == <<"_","d","i","s","a","b","l","e","d">>
DLC_PREFIXES == {<<"E","P">>, <<"G","P">>, <<"S","P">>, <<"F","P">>, <<"K","P">>}
ExtPackage == <<".","p","a","c","k","a","g","e">>
ExtScript == <<".","t","s","4","s","c","r","i","p","t">>
ExtZip == <<".","z","i","p">>
ResourceCfg == <<"r","e","s","o","u","r","c","e",".","c","f","g">>
PreRestore == <<"_","p","r","e","_","r","e","s","t","o","r","e","_">>
ParDir == <<".",".">>
CurDir == <<".">>

---------------------------------------------------------------------------
(* Paths and the filesystem *)

\* A node carries its name as it was written; the filesystem is keyed by
\* the lower-cased path, so that a lookup ignores case.
Dir(n) == [kind |-> "dir", name |-> n]
File(n, d) == [kind |-> "file", name |-> n, data |-> d]

LowerPath(p) == [i \in 1..Len(p) |-> Lower(p[i])]

IsPrefix(p, q) == Len(p) <= Len(q) /\ SubSeq(q, 1, Len(p)) = p

\* os.path.dirname / os.path.basename of a normalised path
DirName(p) == IF p = <<>> THEN <<>> ELSE SubSeq(p, 1, Len(p) - 1)
BaseName(p) == IF p = <<>> THEN <<>> ELSE p[Len(p)]

\* os.path.normpath / os.path.abspath: "." and "" dropped, ".." resolved
\* lexically, ".." at the drive root ignored.
RECURSIVE NormOnto(_, _)
NormOnto(acc, parts) ==
    IF parts = <<>> THEN acc
    ELSE IF Head(parts) \in {<<>>, CurDir} THEN NormOnto(acc, Tail(parts))
    ELSE IF Head(parts) = ParDir THEN NormOnto(DirName(acc), Tail(parts))
    ELSE NormOnto(Append(acc, Head(parts)), Tail(parts))

NormPath(p) == NormOnto(<<>>, p)

\* The key under which the filesystem holds what a path names: Windows
\* resolves ".." lexically before it looks the path up.
Key(p) == LowerPath(NormPath(p))

\* os.path.exists / isdir / isfile; the drive root always exists.
Exists(f, p) == Key(p) = <<>> \/ Key(p) \in DOMAIN f
IsDir(f, p) == Key(p) = <<>> \/ (Key(p) \in DOMAIN f /\ f[Key(p)].kind = "dir")
IsFile(f, p) == Key(p) \in DOMAIN f /\ f[Key(p)].kind = "file"

\* The keys of the immediate children of the directory with key k
Children(f, k) == {q \in DOMAIN f : Len(q) = Len(k) + 1 /\ IsPrefix(k, q)}

\* os.listdir: the names of the immediate children
ListDir(f, d) == {f[q].name : q \in Children(f, Key(d))}

\* The keys at or below key k
Subtree(f, k) == {q \in DOMAIN f : IsPrefix(k, q)}

\* f without the subtree at key k (shutil.rmtree, or the source of a move)
Without(f, k) == [q \in DOMAIN f \ Subtree(f, k) |-> f[q]]

\* The subtree at key src as it is found at path dst
Rerooted(f, src, dst) ==
    LET d == Key(dst)
        moved == {d \o SubSeq(q, Len(src) + 1, Len(q)) : q \in Subtree(f, src)}
    IN  [q \in moved |->
            IF q = d THEN [f[src] EXCEPT !.name = BaseName(NormPath(dst))]
            ELSE f[src \o SubSeq(q, Len(d) + 1, Len(q))]]

\* f with the subtree at key src moved to path dst (a successful rename)
Moved(f, src, dst) == Rerooted(f, src, dst) @@ Without(f, src)

\* f with the subtree at key src also copied to path dst (shutil.copytree)
Copied(f, src, dst) == Rerooted(f, src, dst) @@ f

---------------------------------------------------------------------------
(* The user data directory (get_sims4_user_data_path) *)

Documents == << <<"D">> >>
SimsUserPath == Documents \o << <<"E","A">>, <<"T","S","4">> >>
AltSimsUserPath == Documents \o << <<"T","S","4">> >>
ModsName == <<"M","o","d","s">>
SavesName == <<"s","a","v","e","s">>

\* <<>> stands for None (and for the empty string of a path variable).
get_sims4_user_data_path(f) ==
    IF IsDir(f, SimsUserPath) THEN SimsUserPath
    ELSE IF IsDir(f, AltSimsUserPath) THEN AltSimsUserPath
    ELSE <<>>

---------------------------------------------------------------------------
(* Naming policy and scanners *)

\* The marker stripped as often as it occurs at the end of the name
RECURSIVE StripAll(_)
StripAll(name) ==
    IF EndsWith(name, DISABLED_SUFFIX)
    THEN StripAll(DropLast(name, Len(DISABLED_SUFFIX)))
    ELSE name

\* A descriptor whose original_name has lost every trailing marker
DlcItemStripAll(folder_name) ==
    [folder |-> folder_name, original_name |-> StripAll(folder_name),
     status |-> IF EndsWith(folder_name, DISABLED_SUFFIX)
                THEN "Disabled" ELSE "Enabled"]

\* scan_dlc, lines 140-145: the descriptor of a folder name
DlcItem(folder_name) ==
    IF EndsWith(folder_name, DISABLED_SUFFIX)
    THEN [folder |-> folder_name,
          original_name |-> DropLast(folder_name, Len(DISABLED_SUFFIX)),
          status |-> "Disabled"]
    ELSE [folder |-> folder_name, original_name |-> folder_name,
          status |-> "Enabled"]

\* line 147
LooksLikeDlc(original_name) ==
    \E prefix \in DLC_PREFIXES : StartsWith(original_name, prefix)

\* line 149: not any(os.scandir(full_path))
IsEmptyDir(f, d) == ListDir(f, d) = {}

\* lines 137-155: the descriptors appended, in no particular order
DlcItems(f, game_path) ==
    {DlcItem(item) : item \in
        {i \in ListDir(f, game_path) :
            /\ IsDir(f, Append(game_path, i))
            /\ LooksLikeDlc(DlcItem(i).original_name)
            /\ ~IsEmptyDir(f, Append(game_path, i))}}

B2N(b) == IF b THEN 1 ELSE 0

\* lines 157-162: the sort key, a tuple of five booleans and a string
DlcKey(x) ==
    <<B2N(StartsWith(x.original_name, <<"F","P">>)),
      B2N(StartsWith(x.original_name, <<"E","P">>)),
      B2N(StartsWith(x.original_name, <<"G","P">>)),
      B2N(StartsWith(x.original_name, <<"S","P">>)),
      B2N(StartsWith(x.original_name, <<"K","P">>)),
      x.original_name>>

\* Python's tuple comparison: the first differing component decides.
DlcKeyLess(a, b) ==
    \E i \in 1..6 :
        /\ \A j \in 1..(i - 1) : a[j] = b[j]
        /\ IF i = 6 THEN StrLess(a[6], b[6]) ELSE a[i] < b[i]

\* list.sort(key=...) is stable and os.listdir's order is arbitrary: every
\* ordering of the items that is ascending in the key is a possible result.
RECURSIVE SortedDlc(_)
SortedDlc(S) ==
    IF S = {} THEN {<<>>}
    ELSE UNION {{<<m>> \o t : t \in SortedDlc(S \ {m})} :
                m \in {x \in S : \A y \in S : ~DlcKeyLess(DlcKey(y), DlcKey(x))}}

\* scan_dlc, lines 128-174: the lists it can return and the condition it
\* reports.  fault is what os.listdir raises: "none", "FileNotFoundError",
\* "PermissionError" or "OSError".
scan_dlc(f, game_path, fault) ==
    IF game_path = <<>> \/ ~IsDir(f, game_path)
    THEN {[list |-> <<>>, cond |-> "invalid"]}
    ELSE IF fault # "none"
    THEN {[list |-> <<>>, cond |-> fault]}
    ELSE {[list |-> l, cond |-> "ok"] : l \in SortedDlc(DlcItems(f, game_path))}

DisabledPackageSuffix == DISABLED_SUFFIX \o ExtPackage
DisabledScriptSuffix == DISABLED_SUFFIX \o ExtScript

\* scan_mods, lines 221-240: the descriptor of a file
ModFileItem(mods_path, item) ==
    IF EndsWith(Lower(item), DisabledPackageSuffix)
    THEN [type |-> "file", name |-> item,
          original_name |-> DropLast(item, Len(DisabledPackageSuffix)) \o ExtPackage,
          status |-> "Disabled", path |-> Append(mods_path, item)]
    ELSE IF EndsWith(Lower(item), DisabledScriptSuffix)
    THEN [type |-> "file", name |-> item,
          original_name |-> DropLast(item, Len(DisabledScriptSuffix)) \o ExtScript,
          status |-> "Disabled", path |-> Append(mods_path, item)]
    ELSE [type |-> "file", name |-> item, original_name |-> item,
          status |-> "Enabled", path |-> Append(mods_path, item)]

\* scan_mods, lines 241-254: the descriptor of a folder
ModFolderItem(mods_path, item) ==
    IF EndsWith(item, DISABLED_SUFFIX)
    THEN [type |-> "folder", name |-> item,
          original_name |-> DropLast(item, Len(DISABLED_SUFFIX)),
          status |-> "Disabled", path |-> Append(mods_path, item)]
    ELSE [type |-> "folder", name |-> item, original_name |-> item,
          status |-> "Enabled", path |-> Append(mods_path, item)]

\* The extension test without item.lower(): a file named in upper case is
\* no mod
IsModFileNameExact(item) ==
    EndsWith(item, ExtPackage) \/ EndsWith(item, ExtScript)

\* line 221
IsModFileName(item) ==
    EndsWith(Lower(item), ExtPackage) \/ EndsWith(Lower(item), ExtScript)

\* lines 215-254
ModItems(f, mods_path) ==
    LET names == {i \in ListDir(f, mods_path) : Lower(i) # ResourceCfg}
    IN  {ModFileItem(mods_path, i) : i \in
            {n \in names : IsFile(f, Append(mods_path, n)) /\ IsModFileName(n)}}
        \cup
        {ModFolderItem(mods_path, i) : i \in
            {n \in names : IsDir(f, Append(mods_path, n))}}

\* line 255: key=lambda x: x["name"].lower()
ModKeyLess(a, b) == StrLess(Lower(a.name), Lower(b.name))

RECURSIVE SortedMods(_)
SortedMods(S) ==
    IF S = {} THEN {<<>>}
    ELSE UNION {{<<m>> \o t : t \in SortedMods(S \ {m})} :
                m \in {x \in S : \A y \in S : ~ModKeyLess(y, x)}}

\* scan_mods, lines 204-260
scan_mods(f, mods_path, fault) ==
    IF ~IsDir(f, mods_path)
    THEN {[list |-> <<>>, cond |-> "not_found"]}
    ELSE IF fault # "none"
    THEN {[list |-> <<>>, cond |-> "error"]}
    ELSE {[list |-> l, cond |-> "ok"] : l \in SortedMods(ModItems(f, mods_path))}

---------------------------------------------------------------------------
(* Toggle engine *)

\* os.replace, which overwrites an existing target, where os.rename refuses
\* (defined before os.rename: see below for fault).
\* os.rename on Windows.  fault is what the operating system refuses with
\* for reasons outside the model ("none" when it does not); the rename is
\* atomic, so a refused rename changes nothing.
OsReplace(f, src, dst, fault) ==
    IF fault # "none" THEN [fs |-> f, err |-> fault]
    ELSE IF ~Exists(f, src) \/ Key(src) = <<>>
    THEN [fs |-> f, err |-> "FileNotFoundError"]
    ELSE [fs |-> Moved(Without(f, Key(dst)), Key(src), dst), err |-> "none"]

OsRename(f, src, dst, fault) ==
    IF fault # "none" THEN [fs |-> f, err |-> fault]
    ELSE IF ~Exists(f, src) \/ Key(src) = <<>>
    THEN [fs |-> f, err |-> "FileNotFoundError"]
    ELSE IF Exists(f, dst) /\ Key(dst) # Key(src)
    THEN [fs |-> f, err |-> "FileExistsError"]
    ELSE IF ~IsDir(f, DirName(NormPath(dst))) \/ IsPrefix(Key(src), Key(dst))
    THEN [fs |-> f, err |-> "OSError"]
    ELSE [fs |-> Moved(f, Key(src), dst), err |-> "none"]

\* lines 179 and 279: the folder rule
FolderTargetName(info) ==
    IF info.status = "Enabled" THEN info.original_name \o DISABLED_SUFFIX
    ELSE info.original_name

\* lines 267-276: the file rule
FileTargetName(info) ==
    IF info.status = "Enabled"
    THEN IF EndsWith(Lower(info.original_name), ExtPackage)
         THEN DropLast(info.original_name, Len(ExtPackage)) \o DisabledPackageSuffix
         ELSE IF EndsWith(Lower(info.original_name), ExtScript)
         THEN DropLast(info.original_name, Len(ExtScript)) \o DisabledScriptSuffix
         ELSE info.original_name \o DISABLED_SUFFIX
    ELSE info.original_name

\* lines 265-279
ModTargetName(mod_info) ==
    IF mod_info.type = "file" THEN FileTargetName(mod_info)
    ELSE IF mod_info.type = "folder" THEN FolderTargetName(mod_info)
    ELSE <<>>

\* lines 187-202 and 292-307: the outcome reported for what os.rename raised
ToggleOutcome(err) ==
    CASE err = "none" -> "success"
      [] err = "PermissionError" -> "PermissionError"
      [] err = "FileExistsError" -> "FileExistsError"
      [] OTHER -> "Error"

\* toggle_dlc_status_backend, lines 176-202
toggle_dlc_status_backend(f, game_path, dlc_info, fault) ==
    LET current_path == Append(game_path, dlc_info.folder)
        target_name == FolderTargetName(dlc_info)
        target_path == Append(game_path, target_name)
        r == OsRename(f, current_path, target_path, fault)
    IN  [fs |-> r.fs, result |-> ToggleOutcome(r.err),
         src |-> current_path, dst |-> target_path]

\* toggle_mod_status_backend, lines 262-307
toggle_mod_status_backend(f, mod_info, fault) ==
    LET current_path == mod_info.path
        target_name == ModTargetName(mod_info)
        target_path == Append(DirName(current_path), target_name)
        r == OsRename(f, current_path, target_path, fault)
    IN  IF target_name = <<>>
        THEN [fs |-> f, result |-> "no_target", src |-> current_path, dst |-> <<>>]
        ELSE [fs |-> r.fs, result |-> ToggleOutcome(r.err),
              src |-> current_path, dst |-> target_path]

---------------------------------------------------------------------------
(* Names and initial filesystems *)

GameName == <<"G">>
GamePath == <<GameName>>
ModsPath == Append(SimsUserPath, ModsName)
SavesPath == Append(SimsUserPath, SavesName)

N_EP01 == <<"E","P","0","1">>
N_GP02 == <<"G","P","0","2">>
N_Temp == <<"T","e","m","p">>
N_SP02 == <<"S","P","0","2">>
N_KP03 == <<"K","P","0","3">>
N_GP04 == <<"G","P","0","4">>
N_x == <<"x">>
N_a_package == <<"a">> \o ExtPackage
N_a1_package == <<"a","1">> \o ExtPackage
N_C_PACKAGE == <<"C",".","P","A","C","K","A","G","E">>
N_b_DISABLED_script == <<"b","_","D","I","S","A","B","L","E","D">> \o ExtScript
N_m == <<"m">>
N_k == <<"k">>
N_n_txt == <<"n",".","t","x","t">>
N_Resource_cfg == <<"R","e","s","o","u","r","c","e",".","c","f","g">>

\* The filesystem holding directories at the paths of D and files with
\* the given data at the paths of F (a set of <<path, data>>)
MkFS(D, F) ==
    [k \in {Key(p) : p \in D} \cup {Key(e[1]) : e \in F} |->
        IF \E p \in D : Key(p) = k
        THEN Dir(BaseName(CHOOSE p \in D : Key(p) = k))
        ELSE LET e == CHOOSE e \in F : Key(e[1]) = k
             IN  File(BaseName(e[1]), e[2])]

\* The directories every filesystem of the model starts with
BaseDirs == {Documents, DirName(SimsUserPath), SimsUserPath}

In(d, names) == {Append(d, n) : n \in names}

\* One file x in each of the folders dirs
Filled(dirs) == {<<Append(d, N_x), "x">> : d \in dirs}

\* The game folder of the scanning scenario
DlcFS1 ==
    LET folders == In(GamePath, {N_EP01, N_GP02 \o DISABLED_SUFFIX, N_Temp})
    IN  MkFS({GamePath} \cup folders, Filled(folders))

\* A game folder with a name collision, an empty folder, a doubly marked
\* folder and a file
DlcFS2 ==
    LET folders == In(GamePath, {N_EP01, N_EP01 \o DISABLED_SUFFIX,
                                 N_KP03 \o DISABLED_SUFFIX \o DISABLED_SUFFIX})
    IN  MkFS({GamePath, Append(GamePath, N_SP02)} \cup folders,
             Filled(folders) \cup {<<Append(GamePath, N_GP04), "g">>})

\* A small Mods folder: a file with an upper-case extension, a folder that
\* holds a package of its own, and Resource.cfg
ModsFS1 ==
    LET folders == In(ModsPath, {N_m})
    IN  MkFS(BaseDirs \cup {ModsPath} \cup folders,
             Filled(folders) \cup {<<Append(ModsPath, N_C_PACKAGE), "c">>,
                                   <<ModsPath \o <<N_m, N_a_package>>, "d">>,
                                   <<Append(ModsPath, N_Resource_cfg), "r">>})

\* A Mods folder with a name collision, a mixed-case disabled file, a
\* disabled folder and a file that is no mod
ModsFS2 ==
    LET folders == In(ModsPath, {N_k \o DISABLED_SUFFIX})
    IN  MkFS(BaseDirs \cup {ModsPath} \cup folders,
             Filled(folders)
             \cup {<<Append(ModsPath, N_a_package), "a">>,
                   <<Append(ModsPath, <<"a">> \o DisabledPackageSuffix), "b">>,
                   <<Append(ModsPath, N_b_DISABLED_script), "s">>,
                   <<Append(ModsPath, N_n_txt), "t">>})

\* A Mods folder with two packages whose names start alike
ModsFS3 ==
    MkFS(BaseDirs \cup {ModsPath},
         {<<Append(ModsPath, N_a_package), "a">>,
          <<Append(ModsPath, N_a1_package), "b">>})

\* Either the game folder or the user data folder is populated; the other
\* is missing (the game is not installed, or it was never started).
ToggleInitFS == {DlcFS1, DlcFS2, ModsFS1, ModsFS2, ModsFS3}

\* What os.rename and os.listdir can be refused with by the operating system
RenameFaults == {"none", "PermissionError", "OSError"}
ScanFaults == {"none", "PermissionError", "FileNotFoundError", "OSError"}
\* scan_mods handles every exception alike (lines 258-260)
ModScanFaults == {"none", "PermissionError", "OSError"}

---------------------------------------------------------------------------
(* Handlers of the DLC and Mods tabs *)

\* What prev keeps of the handler before the last one: a completed toggle
\* or install, so that two runs in a row can be compared.
Remember(l) ==
    IF l.op \in {"toggle_dlc", "toggle_mod", "install"} /\ l.result = "success"
    THEN l
    ELSE [op |-> "other", result |-> "none"]

\* populate_dlc_listbox, lines 437-475: the list stored
populate_dlc_listbox(f, game_path, fault) == scan_dlc(f, game_path, fault)

\* populate_mods_listbox, lines 517-565: the list stored
populate_mods_listbox(f, fault) ==
    LET sims4_user_path == get_sims4_user_data_path(f)
    IN  IF sims4_user_path = <<>>
        THEN {[list |-> <<>>, cond |-> "not_found"]}
        ELSE scan_mods(f, Append(sims4_user_path, ModsName), fault)

\* The rows of a listbox: one placeholder row when the list is empty
\* (lines 446, 454, 528, 546)
ListboxSize(list) == IF list = <<>> THEN 1 ELSE Len(list)

\* selection_set(index) after a repopulation (lines 507, 595): a row that
\* does not exist is not selected
Reselect(sel, list) == IF sel <= ListboxSize(list) THEN sel ELSE 0

\* refresh_dlc_list, lines 477-479
RefreshDlc ==
    \E fault \in ScanFaults :
        \E r \in populate_dlc_listbox(fs, game_path_var, fault) :
            /\ current_dlc_list' = r.list
            /\ dlc_scanned_in' = game_path_var
            /\ dlc_sel' = 0
            /\ last' = [op |-> "refresh_dlc", result |-> r.cond]
            /\ prev' = Remember(last)
            /\ pre_fs' = fs
            /\ UNCHANGED <<fs, now, archives, game_path_var, current_mod_list, mod_sel>>

\* refresh_mods_list, lines 567-569
RefreshMods ==
    \E fault \in ModScanFaults :
        \E r \in populate_mods_listbox(fs, fault) :
            /\ current_mod_list' = r.list
            /\ mod_sel' = 0
            /\ last' = [op |-> "refresh_mods", result |-> r.cond,
                        fault |-> IF r.cond = "error" THEN fault ELSE "none"]
            /\ prev' = Remember(last)
            /\ pre_fs' = fs
            /\ UNCHANGED <<fs, now, archives, game_path_var,
                           current_dlc_list, dlc_scanned_in, dlc_sel>>

\* The user clicks a row of the DLC listbox (on_dlc_select, lines 481-483)
SelectDlc ==
    \E i \in 1..ListboxSize(current_dlc_list) :
        /\ dlc_sel # i
        /\ dlc_sel' = i
        /\ UNCHANGED <<fs, now, archives, game_path_var,
                       current_dlc_list, dlc_scanned_in,
                       current_mod_list, mod_sel, last, prev, pre_fs>>

\* The user clicks a row of the Mods listbox (on_mod_select, lines 571-573)
SelectMod ==
    \E i \in 1..ListboxSize(current_mod_list) :
        /\ mod_sel # i
        /\ mod_sel' = i
        /\ UNCHANGED <<fs, now, archives, game_path_var,
                       current_dlc_list, dlc_scanned_in,
                       current_mod_list, dlc_sel, last, prev, pre_fs>>

\* What a toggle handler did: the rename attempted by the backend and
\* whether the handler rebuilt its list afterwards (lines 502-504, 591-593),
\* with the condition the scan ended in ("none" when there was no scan)
\* and, for a DLC, the game path the list it was read from was scanned in;
\* index is the row the handler read the item from (lines 492, 582) and
\* selects again (lines 507, 595)
ToggleReport(op, index, r, info, fault, rescanned, scan) ==
    [op |-> op, index |-> index, result |-> r.result, src |-> r.src,
     dst |-> r.dst, status |-> info.status, fault |-> fault,
     rescanned |-> rescanned, scan |-> scan,
     scanned_in |-> IF op = "toggle_dlc" THEN dlc_scanned_in ELSE <<>>]

\* toggle_selected_dlc, lines 485-515
ToggleSelectedDlc ==
    /\ prev' = Remember(last)
    /\ pre_fs' = fs
    /\ UNCHANGED <<now, archives, game_path_var, current_mod_list, mod_sel>>
    /\ IF dlc_sel = 0
       THEN /\ last' = [op |-> "toggle_dlc", result |-> "no_selection"]
            /\ UNCHANGED <<fs, current_dlc_list, dlc_scanned_in, dlc_sel>>
       ELSE IF dlc_sel > Len(current_dlc_list)
       THEN /\ last' = [op |-> "toggle_dlc", result |-> "out_of_bounds"]
            /\ UNCHANGED <<fs, current_dlc_list, dlc_scanned_in, dlc_sel>>
       ELSE \E fault \in RenameFaults :
            \E dlc_to_toggle \in {current_dlc_list[dlc_sel]} :
            \E r \in {toggle_dlc_status_backend(fs, game_path_var, dlc_to_toggle, fault)} :
                /\ fs' = r.fs
                /\ IF r.result = "success"
                   THEN \E sf \in ScanFaults :
                        \E s \in populate_dlc_listbox(r.fs, game_path_var, sf) :
                            /\ current_dlc_list' = s.list
                            /\ dlc_scanned_in' = game_path_var
                            /\ dlc_sel' = Reselect(dlc_sel, s.list)
                            /\ last' = ToggleReport("toggle_dlc", dlc_sel, r, dlc_to_toggle,
                                                     fault, TRUE,
                                                     s.cond)
                   ELSE /\ last' = ToggleReport("toggle_dlc", dlc_sel, r, dlc_to_toggle,
                                                     fault, FALSE,
                                                     "none")
                        /\ UNCHANGED <<current_dlc_list, dlc_scanned_in, dlc_sel>>

\* toggle_selected_mod, lines 575-602
ToggleSelectedMod ==
    /\ prev' = Remember(last)
    /\ pre_fs' = fs
    /\ UNCHANGED <<now, archives, game_path_var,
                   current_dlc_list, dlc_scanned_in, dlc_sel>>
    /\ IF mod_sel = 0
       THEN /\ last' = [op |-> "toggle_mod", result |-> "no_selection"]
            /\ UNCHANGED <<fs, current_mod_list, mod_sel>>
       ELSE IF mod_sel > Len(current_mod_list)
       THEN /\ last' = [op |-> "toggle_mod", result |-> "out_of_bounds"]
            /\ UNCHANGED <<fs, current_mod_list, mod_sel>>
       ELSE \E fault \in RenameFaults :
            \E mod_to_toggle \in {current_mod_list[mod_sel]} :
            \E r \in {toggle_mod_status_backend(fs, mod_to_toggle, fault)} :
                /\ fs' = r.fs
                /\ IF r.result = "success"
                   THEN \E sf \in ModScanFaults :
                        \E s \in populate_mods_listbox(r.fs, sf) :
                            /\ current_mod_list' = s.list
                            /\ mod_sel' = Reselect(mod_sel, s.list)
                            /\ last' = ToggleReport("toggle_mod", mod_sel, r, mod_to_toggle,
                                                     fault, TRUE,
                                                     s.cond)
                   ELSE /\ last' = ToggleReport("toggle_mod", mod_sel, r, mod_to_toggle,
                                                     fault, FALSE,
                                                     "none")
                        /\ UNCHANGED <<current_mod_list, mod_sel>>

\* The state once initialize_app (lines 984-1026) has run: the game path
\* is set and both lists hold a scan of the filesystem.
Init ==
    /\ fs \in ToggleInitFS
    /\ now = 0
    /\ archives = {}
    /\ game_path_var = (IF IsDir(fs, GamePath) THEN GamePath ELSE <<>>)
    /\ current_dlc_list \in {r.list : r \in populate_dlc_listbox(fs, game_path_var, "none")}
    /\ dlc_scanned_in = game_path_var
    /\ current_mod_list \in {r.list : r \in populate_mods_listbox(fs, "none")}
    /\ dlc_sel = 0
    /\ mod_sel = 0
    /\ last = [op |-> "init", result |-> "ok"]
    /\ prev = [op |-> "other", result |-> "none"]
    /\ pre_fs = fs

Next ==
    \/ RefreshDlc
    \/ RefreshMods
    \/ SelectDlc
    \/ SelectMod
    \/ ToggleSelectedDlc
    \/ ToggleSelectedMod

Spec == Init /\ [][Next]_vars

---------------------------------------------------------------------------
(* Claims about scanning and toggling, checked under Spec *)

IsToggle(l) == l.op \in {"toggle_dlc", "toggle_mod"} /\ "src" \in DOMAIN l

\* The status a scan derives for the entry at path p
ScannedStatus(f, op, p) ==
    IF op = "toggle_dlc" THEN DlcItem(BaseName(p)).status
    ELSE IF IsFile(f, p) THEN ModFileItem(DirName(p), BaseName(p)).status
    ELSE ModFolderItem(DirName(p), BaseName(p)).status

\* Two successful toggles in a row, the second of the entry the first made
ToggledTwice ==
    /\ IsToggle(last) /\ last.result = "success"
    /\ prev.op = last.op
    /\ last.src = prev.dst

\* C1: toggling a scanned item, rescanning, and toggling the same on-disk
\* entry again returns the entry to its original on-disk name and to its
\* original status, when both renames succeed.
C1_ToggleTwiceRestores ==
    ToggledTwice =>
        /\ last.dst = prev.src
        /\ ScannedStatus(fs, last.op, last.dst) = prev.status

\* C1: the case happens: an entry was toggled twice with success.
C1_Witness == ToggledTwice

\* The disabled name the toggle logic computes from an item's original_name
DisabledNameOf(x) ==
    IF "type" \in DOMAIN x THEN ModTargetName([x EXCEPT !.status = "Enabled"])
    ELSE FolderTargetName([x EXCEPT !.status = "Enabled"])

\* C2: every scanned item satisfies the naming invariant: an Enabled item's
\* original_name is its on-disk name, and the disabled name computed from a
\* Disabled item's original_name is exactly its on-disk name.
C2_NamingInvariant ==
    /\ \A i \in 1..Len(current_dlc_list) :
        LET x == current_dlc_list[i]
        IN  /\ x.status = "Enabled" => x.original_name = x.folder
            /\ x.status = "Disabled" => DisabledNameOf(x) = x.folder
    /\ \A i \in 1..Len(current_mod_list) :
        LET x == current_mod_list[i]
        IN  /\ x.status = "Enabled" => x.original_name = x.name
            /\ x.status = "Disabled" => DisabledNameOf(x) = x.name

\* C2: the case happens: a scan returned a Disabled mod file.
C2_Witness ==
    \E i \in 1..Len(current_mod_list) :
        current_mod_list[i].status = "Disabled" /\ current_mod_list[i].type = "file"

\* The key a key of the renamed subtree has after the rename
RenamedKey(q, s, d) == d \o SubSeq(q, Len(s) + 1, Len(q))

\* C3: a toggle is an all-or-nothing, non-overwriting rename.  On success
\* the selected entry alone (with what it contains) is found under its
\* target name beside its old place and every other entry is as before; on
\* failure the filesystem is as before; when the target name exists the
\* toggle fails, nothing is overwritten, and the outcome is 'already
\* exists' (whenever the selected entry is there and the operating system
\* refuses nothing else), an outcome reported for no other reason.
C3_ToggleFrame ==
    IsToggle(last) =>
        LET s == Key(last.src)
            d == Key(last.dst)
        IN  /\ last.result = "success" =>
                /\ s \in DOMAIN pre_fs /\ d \notin DOMAIN pre_fs
                /\ DirName(last.dst) = DirName(last.src)
                /\ Cardinality(DOMAIN fs) = Cardinality(DOMAIN pre_fs)
                /\ \A q \in DOMAIN pre_fs :
                    IF IsPrefix(s, q)
                    THEN /\ q \notin DOMAIN fs
                         /\ RenamedKey(q, s, d) \in DOMAIN fs
                         /\ fs[RenamedKey(q, s, d)] =
                               (IF q = s
                                THEN [pre_fs[q] EXCEPT !.name = BaseName(last.dst)]
                                ELSE pre_fs[q])
                    ELSE q \in DOMAIN fs /\ fs[q] = pre_fs[q]
            /\ last.result # "success" => fs = pre_fs
            /\ Exists(pre_fs, last.dst) => (last.result # "success" /\ fs = pre_fs)
            /\ (Exists(pre_fs, last.dst) /\ Exists(pre_fs, last.src)
                    /\ last.fault = "none") => last.result = "FileExistsError"
            /\ last.result = "FileExistsError" => Exists(pre_fs, last.dst)

\* C3: the case happens: a toggle succeeded and the next one was refused
\* because its target name exists.
C3_Witness ==
    /\ IsToggle(last) /\ last.result = "FileExistsError"
    /\ prev.op = last.op

\* The items of the scanning scenario
ItemEP01 == [folder |-> N_EP01, original_name |-> N_EP01, status |-> "Enabled"]
ItemGP02 == [folder |-> N_GP02 \o DISABLED_SUFFIX, original_name |-> N_GP02,
             status |-> "Disabled"]

\* The game folder holds EP01, GP02_disabled and Temp and was just scanned
ScannedScenario ==
    /\ fs = DlcFS1
    /\ last.op \in {"init", "refresh_dlc"} /\ last.result = "ok"

\* C10: scanning a game root that holds the folders EP01, GP02_disabled and
\* Temp yields exactly EP01 (Enabled) and then GP02 (Disabled).
C10_ScanScenario == ScannedScenario => current_dlc_list = <<ItemEP01, ItemGP02>>

\* C10: the case happens: the scenario's folder was scanned and the scan
\* returned the two items.
C10_Witness ==
    /\ ScannedScenario
    /\ {current_dlc_list[i] : i \in 1..Len(current_dlc_list)} = {ItemEP01, ItemGP02}

---------------------------------------------------------------------------
(* Writing to the filesystem *)

\* The prefixes p[1..i] of a path
Prefixes(p) == {SubSeq(p, 1, i) : i \in 1..Len(p)}

\* os.makedirs(p, exist_ok=True): the missing directories of the path are
\* created; a file in the way raises.
MakeDirs(f, p) ==
    LET n == NormPath(p)
    IN  IF \E q \in Prefixes(n) : IsFile(f, q)
        THEN [fs |-> f, err |-> "FileExistsError"]
        ELSE [fs |-> MkFS({q \in Prefixes(n) : ~Exists(f, q)}, {}) @@ f,
              err |-> "none"]

\* open(p, "wb") and a write of data: an existing file is truncated and
\* keeps its name; a directory at p, or no directory to hold p, raises.
WriteFile(f, p, data) ==
    IF IsDir(f, p) THEN [fs |-> f, err |-> "PermissionError"]
    ELSE IF ~IsDir(f, DirName(NormPath(p))) THEN [fs |-> f, err |-> "OSError"]
    ELSE IF IsFile(f, p)
    THEN [fs |-> [f EXCEPT ![Key(p)].data = data], err |-> "none"]
    ELSE [fs |-> MkFS({}, {<<NormPath(p), data>>}) @@ f, err |-> "none"]

\* str.startswith on two absolute paths written out as strings: all but
\* the last component of the prefix are whole components of the path, and
\* its last component starts the component at that place.
StrStartsWith(p, r) ==
    IF r = <<>> THEN TRUE
    ELSE /\ Len(p) >= Len(r)
         /\ SubSeq(p, 1, Len(r) - 1) = SubSeq(r, 1, Len(r) - 1)
         /\ StartsWith(p[Len(r)], r[Len(r)])

\* zipfile.ZipFile._extract_member: the place a member is extracted to has
\* the empty, "." and ".." components of its name removed.
ArcName(filename) ==
    SelectSeq(filename, LAMBDA x : x \notin {<<>>, CurDir, ParDir})

ExtractPath(member, targetpath) == targetpath \o ArcName(member.filename)

\* zipfile.ZipFile.extract(member, path): the upper directories are made,
\* a directory member is made if it is not there, a file member is
\* written, over whatever file is there.
ExtractMember(f, member, path) ==
    LET targetpath == ExtractPath(member, path)
        upperdirs == DirName(targetpath)
    IN  Only({IF up.err # "none" THEN up
              ELSE IF member.is_dir
              THEN IF IsDir(up.fs, targetpath) THEN up
                   ELSE IF Exists(up.fs, targetpath)
                   THEN [fs |-> up.fs, err |-> "FileExistsError"]
                   ELSE MakeDirs(up.fs, targetpath)
              ELSE WriteFile(up.fs, targetpath, member.data) :
              up \in {IF ~Exists(f, upperdirs) THEN MakeDirs(f, upperdirs)
                      ELSE [fs |-> f, err |-> "none"]}})

---------------------------------------------------------------------------
(* Installer *)

MaxFaultAt == 2

\* The files the user can pick: a name, whether zipfile.is_zipfile accepts
\* the file, the members of an archive, the data of a plain file.
Member(filename, is_dir, data) ==
    [filename |-> filename, is_dir |-> is_dir, data |-> data]

SourceFile(name, valid, members, data) ==
    [name |-> name, valid |-> valid, members |-> members, data |-> data]

\* The dialog was cancelled: askopenfilename returns ""
NoFile == SourceFile(<<>>, FALSE, <<>>, "")

\* lines 350-366: the loop over the members, from member i on.  acc holds
\* the filesystem, skipped_files, installed_count, the members extracted
\* and what was raised; fault_at is the member whose extraction the
\* operating system refuses (0: none).
RECURSIVE InstallMembers(_, _, _, _, _)
InstallMembers(acc, members, i, mods_path, fault_at) ==
    IF i > Len(members) \/ acc.err # "none" THEN acc
    ELSE
      LET member == members[i]
          target_path == mods_path \o member.filename
      IN  IF ~StrStartsWith(NormPath(target_path), NormPath(mods_path))
          THEN InstallMembers(
                 [acc EXCEPT !.skipped_files =
                     Append(@, [name |-> member.filename, unsafe |-> TRUE])],
                 members, i + 1, mods_path, fault_at)
          ELSE IF Exists(acc.fs, target_path)
          THEN InstallMembers(
                 [acc EXCEPT !.skipped_files =
                     Append(@, [name |-> member.filename, unsafe |-> FALSE])],
                 members, i + 1, mods_path, fault_at)
          ELSE
            Only({IF r.err # "none"
                  THEN [acc EXCEPT !.fs = r.fs, !.err = r.err]
                  ELSE InstallMembers(
                         [acc EXCEPT !.fs = r.fs,
                                     !.installed_count = @ + 1,
                                     !.extracted = @ \cup {i}],
                         members, i + 1, mods_path, fault_at) :
                  r \in {IF fault_at = i
                         THEN [fs |-> acc.fs, err |-> "PermissionError"]
                         ELSE ExtractMember(acc.fs, member, mods_path)}})

\* lines 381-394: the report
InstallReport(installed_count, skipped_files) ==
    IF installed_count > 0 /\ skipped_files = <<>> THEN "installed"
    ELSE IF installed_count > 0 THEN "installed_with_skips"
    ELSE IF skipped_files # <<>> THEN "all_skipped"
    ELSE "nothing_installed"

InstallResult(f, result, src, acc) ==
    [fs |-> f,
     report |-> [op |-> "install", result |-> result, source |-> src.name,
                 installed_count |-> acc.installed_count,
                 skipped_files |-> acc.skipped_files,
                 extracted |-> acc.extracted,
                 outcome |-> InstallReport(acc.installed_count, acc.skipped_files)]]

\* install_new_mod, lines 310-406, up to the refresh of the list
install_new_mod(f, src, fault_at) ==
    LET sims4_user_path == get_sims4_user_data_path(f)
        mods_path == Append(sims4_user_path, ModsName)
        made == MakeDirs(f, mods_path)
        f1 == made.fs
        acc0 == [fs |-> f1, skipped_files |-> <<>>, installed_count |-> 0,
                 extracted |-> {}, err |-> "none"]
    IN  IF sims4_user_path = <<>>
        THEN InstallResult(f, "no_user_path", src, acc0)
        ELSE IF made.err # "none"
        THEN InstallResult(f, "no_mods_directory", src, acc0)
        ELSE IF src = NoFile
        THEN InstallResult(f1, "cancelled", src, acc0)
        ELSE IF EndsWith(Lower(src.name), ExtZip)
        THEN IF ~src.valid
             THEN InstallResult(f1, "invalid_zip", src, acc0)
             ELSE LET acc == InstallMembers(acc0, src.members, 1, mods_path, fault_at)
                  IN  InstallResult(acc.fs,
                                    IF acc.err = "none" THEN "success" ELSE "error",
                                    src, acc)
        ELSE IF EndsWith(Lower(src.name), ExtPackage)
                \/ EndsWith(Lower(src.name), ExtScript)
        THEN LET target_path == Append(mods_path, src.name)
             IN  IF Exists(f1, target_path)
                 THEN InstallResult(f1, "success", src,
                        [acc0 EXCEPT !.skipped_files =
                            <<[name |-> <<src.name>>, unsafe |-> FALSE]>>])
                 ELSE IF fault_at = 1
                 THEN InstallResult(f1, "error", src, acc0)
                 ELSE InstallResult(WriteFile(f1, target_path, src.data).fs,
                        "success", src,
                        [acc0 EXCEPT !.installed_count = 1, !.extracted = {1}])
        ELSE InstallResult(f1, "unsupported", src, acc0)

N_m1 == <<"m","1">>
N_p_package == <<"p">> \o ExtPackage
N_q_package == <<"q">> \o ExtPackage
N_e_package == <<"e">> \o ExtPackage
N_o_package == <<"o">> \o ExtPackage
N_sub == <<"s","u","b">>
N_Mods2 == ModsName \o <<"2">>
N_readme_txt == <<"r","e","a","d","m","e",".","t","x","t">>

\* An archive of a folder and two files
ZipPlain ==
    SourceFile(<<"z","1">> \o ExtZip, TRUE,
               <<Member(<<N_m1>>, TRUE, ""),
                 Member(<<N_m1, N_p_package>>, FALSE, "1"),
                 Member(<<N_q_package>>, FALSE, "2")>>, "")

\* An archive whose names climb out of the Mods folder: into a sibling
\* whose name starts with "Mods", and two levels up
ZipClimbing ==
    SourceFile(<<"z","2">> \o ExtZip, TRUE,
               <<Member(<<ParDir, N_Mods2, N_e_package>>, FALSE, "3"),
                 Member(<<ParDir, ParDir, N_o_package>>, FALSE, "4")>>, "")

\* An archive with a name that goes down and up again
ZipDotDot ==
    SourceFile(<<"z","3">> \o ExtZip, TRUE,
               <<Member(<<N_sub, ParDir, N_q_package>>, FALSE, "5")>>, "")

ZipInvalid == SourceFile(<<"z","4">> \o ExtZip, FALSE, <<>>, "")
PlainPackage == SourceFile(N_q_package, FALSE, <<>>, "6")
PlainOther == SourceFile(N_readme_txt, FALSE, <<>>, "7")

InstallSources ==
    {ZipPlain, ZipClimbing, ZipDotDot, ZipInvalid, PlainPackage, PlainOther}

\* install_new_mod with the refresh of the Mods list that ends it (line
\* 396), for the files the user can pick from
InstallFrom(sources) ==
    \E src \in sources, fault_at \in 0..MaxFaultAt :
        \E r \in {install_new_mod(fs, src, fault_at)} :
            /\ fs' = r.fs
            /\ last' = r.report
            /\ prev' = Remember(last)
            /\ pre_fs' = fs
            /\ IF r.report.result = "success"
               THEN \E s \in populate_mods_listbox(r.fs, "none") :
                        current_mod_list' = s.list /\ mod_sel' = 0
               ELSE UNCHANGED <<current_mod_list, mod_sel>>
            /\ UNCHANGED <<now, archives, game_path_var,
                           current_dlc_list, dlc_scanned_in, dlc_sel>>

\* The button "Install New Mod..."
InstallNewMod == InstallFrom(InstallSources \cup {NoFile})

\* An empty Mods folder, and one that holds sub/q.package
InstallFS1 == MkFS(BaseDirs \cup {ModsPath}, {})
InstallFS2 ==
    MkFS(BaseDirs \cup {ModsPath, Append(ModsPath, N_sub)},
         {<<ModsPath \o <<N_sub, N_q_package>>, "0">>})

InitInstall ==
    /\ fs \in {InstallFS1, InstallFS2}
    /\ now = 0
    /\ archives = {}
    /\ game_path_var = <<>>
    /\ current_dlc_list = <<>>
    /\ dlc_scanned_in = game_path_var
    /\ current_mod_list \in {r.list : r \in populate_mods_listbox(fs, "none")}
    /\ dlc_sel = 0
    /\ mod_sel = 0
    /\ last = [op |-> "init", result |-> "ok"]
    /\ prev = [op |-> "other", result |-> "none"]
    /\ pre_fs = fs

NextInstall == InstallNewMod

SpecInstall == InitInstall /\ [][NextInstall]_vars

---------------------------------------------------------------------------
(* Claims about the installer, checked under SpecInstall *)

\* The source file of an install report
SourceOf(l) == Only({x \in InstallSources : x.name = l.source})

\* The last handler was an install of a zip archive that read its members
ZipInstalled ==
    /\ last.op = "install" /\ last.result \in {"success", "error"}
    /\ EndsWith(Lower(last.source), ExtZip)

\* The path the installer's checks resolve for a member
ResolvedPath(member) == NormPath(ModsPath \o member.filename)

\* Whether a resolved path lies outside the Mods destination root
OutsideMods(p) == ~IsPrefix(Key(ModsPath), Key(p))

RecordedUnsafe(l, member) ==
    \E j \in 1..Len(l.skipped_files) :
        l.skipped_files[j] = [name |-> member.filename, unsafe |-> TRUE]

RecordedSkipped(l, filename) ==
    \E j \in 1..Len(l.skipped_files) : l.skipped_files[j].name = filename

\* Nothing outside the Mods root differs between two filesystems
SameOutsideMods(f, g) ==
    \A q \in DOMAIN f \cup DOMAIN g :
        ~IsPrefix(Key(ModsPath), q) => (q \in DOMAIN f /\ q \in DOMAIN g /\ f[q] = g[q])

\* C5: during the install of a zip archive every entry whose resolved
\* destination path lies outside the Mods root is recorded as unsafe and is
\* never extracted, and nothing outside the root is created or modified.
C5_UnsafeEntriesRejected ==
    ZipInstalled =>
        /\ \A i \in 1..Len(SourceOf(last).members) :
            OutsideMods(ResolvedPath(SourceOf(last).members[i])) =>
                /\ RecordedUnsafe(last, SourceOf(last).members[i])
                /\ i \notin last.extracted
        /\ SameOutsideMods(fs, pre_fs)

\* C5: the case happens: an archive with an entry that resolves outside
\* the Mods root was installed to the end.
C5_Witness ==
    /\ ZipInstalled /\ last.result = "success"
    /\ \E i \in 1..Len(SourceOf(last).members) :
        OutsideMods(ResolvedPath(SourceOf(last).members[i]))

\* The entries of a source: the members of an archive, or the file itself
EntryNames(src) ==
    IF EndsWith(Lower(src.name), ExtZip)
    THEN {src.members[i].filename : i \in 1..Len(src.members)}
    ELSE {<<src.name>>}

\* Two installs of the same source ran to their reports, one after the other
InstalledTwice ==
    /\ last.op = "install" /\ last.result = "success"
    /\ prev.op = "install" /\ prev.source = last.source

\* C7: a second install of the same source reports zero installed entries,
\* reports every entry of the source as skipped, and leaves the filesystem
\* as the first run left it.
C7_InstallTwice ==
    InstalledTwice =>
        /\ last.installed_count = 0
        /\ \A n \in EntryNames(SourceOf(last)) : RecordedSkipped(last, n)
        /\ fs = pre_fs

\* C7: the case happens: the same source was installed twice in a row.
C7_Witness == InstalledTwice

\* The path at which an entry of the last install is written
WrittenPath(l, i) ==
    IF EndsWith(Lower(l.source), ExtZip)
    THEN ExtractPath(SourceOf(l).members[i], ModsPath)
    ELSE Append(ModsPath, l.source)

\* C8: an install never overwrites: what existed under the destination root
\* before still exists with the same content after, and no entry whose
\* actual extraction path existed before was extracted.
C8_NeverOverwrites ==
    (last.op = "install") =>
        /\ \A q \in DOMAIN pre_fs : q \in DOMAIN fs /\ fs[q] = pre_fs[q]
        /\ \A i \in last.extracted : ~Exists(pre_fs, WrittenPath(last, i))

\* C8: the case happens: an install extracted an entry into a Mods folder
\* that already held files.
C8_Witness ==
    /\ last.op = "install" /\ last.extracted # {}
    /\ \E q \in DOMAIN pre_fs : IsPrefix(Key(ModsPath), q) /\ pre_fs[q].kind = "file"

---------------------------------------------------------------------------
(* Backup and restore (_perform_backup_restore, lines 606-721) *)

MaxNow == 1
MaxDepth == 7

\* The managed folder: backup_saves and restore_saves (lines 725-729) pass
\* "saves" as source_path; backup_mods and restore_mods (lines 731-735) run
\* the same code on "Mods".
Items == {SavesName}

\* datetime.now().strftime("%Y%m%d_%H%M%S"): the clock read to the second,
\* written out in digits
Stamp(t) == <<CodePoints[t + 2]>>

\* line 677: the sibling the target is moved aside to
SnapshotPath(sims4_user_path, source_path, t) ==
    Append(sims4_user_path, source_path \o PreRestore \o Stamp(t))

\* An archive file somewhere outside the managed folders: the file, and for
\* an archive written by a backup the folder backed up, whether the backup
\* ran to its end, and the files the folder held at that time.
Archive(file, item, complete, tree) ==
    [file |-> file, item |-> item, complete |-> complete, tree |-> tree]

\* The path of the node with key q below the directory with key k, in the
\* names as they were written
RelPath(f, k, q) ==
    [i \in 1..(Len(q) - Len(k)) |-> f[SubSeq(q, 1, Len(k) + i)].name]

\* The keys of the files below the directory with key k
FilesBelow(f, k) == {q \in Subtree(f, k) : f[q].kind = "file"}

\* The files of a folder: relative path and data
Tree(f, root) ==
    {<<RelPath(f, Key(root), q), f[q].data>> : q \in FilesBelow(f, Key(root))}

\* lines 635-643: os.walk visits every directory below the target; the
\* files of a directory whose own name starts with
\* "<source_path>_pre_restore_" are passed over (the walk still descends
\* into its subdirectories); the target itself is named by target_path.
WalkedFiles(f, target_path, source_path) ==
    LET k == Key(target_path)
    IN  {q \in FilesBelow(f, k) :
            \/ Len(q) = Len(k) + 1
            \/ ~StartsWith(f[DirName(q)].name, source_path \o PreRestore)}

\* A set written out in the order a walk happens to meet its elements
RECURSIVE Listed(_)
Listed(S) ==
    IF S = {} THEN <<>>
    ELSE LET x == CHOOSE x \in S : TRUE IN <<x>> \o Listed(S \ {x})

\* lines 634-643: the members written to the archive
BackupMembers(f, target_path, source_path) ==
    LET walked == Listed(WalkedFiles(f, target_path, source_path))
    IN  [i \in 1..Len(walked) |->
            Member(RelPath(f, Key(target_path), walked[i]), FALSE, f[walked[i]].data)]

\* lines 615-648: what a backup leaves as the archive file, and its report.
\* fault_at is the member whose write is refused (0: none); the archive
\* is closed on the way out and holds the members written before.
perform_backup(f, source_path, archive_name, fault_at) ==
    LET sims4_user_path == get_sims4_user_data_path(f)
        target_path == Append(sims4_user_path, source_path)
        members == BackupMembers(f, target_path, source_path)
        failed == fault_at \in 1..Len(members)
        written == IF failed THEN SubSeq(members, 1, fault_at - 1) ELSE members
    IN  IF sims4_user_path = <<>>
        THEN [result |-> "no_user_path", archive |-> {}]
        ELSE IF ~IsDir(f, target_path)
        THEN [result |-> "not_found", archive |-> {}]
        ELSE IF archive_name = <<>>
        THEN [result |-> "cancelled", archive |-> {}]
        ELSE [result |-> IF failed THEN "failed" ELSE "success",
              archive |-> {Archive(SourceFile(archive_name, TRUE, written, ""),
                                   source_path, ~failed, Tree(f, target_path))}]

\* shutil.move(src, dst): into dst when dst is a directory, refused when
\* the place is taken; os.rename, and when that is refused a copy of the
\* tree followed by the removal of the source.
MoveFaults == {"none", "copy_failed", "rmtree_failed"}

shutil_move(f, src, dst, fault) ==
    LET real_dst == IF IsDir(f, dst) THEN Append(dst, BaseName(src)) ELSE dst
    IN  IF Exists(f, real_dst)
        THEN [fs |-> f, err |-> IF IsDir(f, dst) THEN "Error" ELSE "FileExistsError"]
        ELSE IF fault = "none"
        THEN [fs |-> Moved(f, Key(src), real_dst), err |-> "none"]
        ELSE IF fault = "copy_failed"
        THEN [fs |-> f, err |-> "OSError"]
        ELSE [fs |-> Copied(f, Key(src), real_dst), err |-> "PermissionError"]

\* shutil.rmtree(path)
RmFaults == {"none", "PermissionError"}

\* What the operating system may refuse during a restore: the moves, the
\* extraction (of the last member of the archive, after the members before
\* it were written) and the removal of the target
AllFaults == [move |-> MoveFaults, extract |-> BOOLEAN, rm |-> RmFaults]
NoFaults == [move |-> {"none"}, extract |-> {FALSE}, rm |-> {"none"}]

shutil_rmtree(f, path, fault) ==
    IF fault = "none" THEN [fs |-> Without(f, Key(path)), err |-> "none"]
    ELSE [fs |-> f, err |-> fault]

\* zipfile.ZipFile.extractall(path), from member i on: every member is
\* extracted, in the order of the archive
RECURSIVE extractall(_, _, _, _, _)
extractall(acc, members, i, path, fault_at) ==
    IF i > Len(members) \/ acc.err # "none" THEN acc
    ELSE Only({IF r.err # "none"
               THEN [acc EXCEPT !.fs = r.fs, !.err = r.err]
               ELSE extractall([acc EXCEPT !.fs = r.fs, !.extracted = @ \cup {i}],
                               members, i + 1, path, fault_at) :
               r \in {IF fault_at = i
                      THEN [fs |-> acc.fs, err |-> "PermissionError"]
                      ELSE ExtractMember(acc.fs, members[i], path)}})

\* lines 688-693: the target is made and the archive extracted into it
ExtractInto(f, members, target_path, fault_at) ==
    Only({IF made.err # "none"
          THEN [fs |-> f, extracted |-> {}, err |-> made.err]
          ELSE extractall([fs |-> made.fs, extracted |-> {}, err |-> "none"],
                          members, 1, target_path, fault_at) :
          made \in {MakeDirs(f, target_path)}})

\* What a restore reports: the message boxes shown, in order, are reports;
\* skipped holds the members reported as passed over (the handler has no
\* such report).
RestoreReport(result, item, src, snapshot, extracted, reports) ==
    [op |-> "restore", result |-> result, item |-> item, archive |-> src.file.name,
     snapshot |-> snapshot, extracted |-> extracted, skipped |-> {},
     reports |-> reports, raised |-> "none"]

\* A rollback that reports every outcome as the end of a rollback
RollbackOutcomeHidden(raised, moved_back) ==
    IF moved_back
    THEN [result |-> "rolled_back", reports |-> <<"Restore Failed", "Rollback">>]
    ELSE [result |-> "rollback_failed",
          reports |-> <<"Restore Failed", "Rollback Failed">>]

\* lines 706-721: what is reported after a failed extraction.  raised is
\* what a step of the rollback raised ("none": nothing), moved_back whether
\* the snapshot was moved back to the target.
RollbackOutcome(raised, moved_back) ==
    IF raised # "none"
    THEN [result |-> "critical",
          reports |-> <<"Restore Failed", "Critical Rollback Error">>]
    ELSE IF moved_back
    THEN [result |-> "rolled_back", reports |-> <<"Restore Failed", "Rollback">>]
    ELSE [result |-> "rollback_failed",
          reports |-> <<"Restore Failed", "Rollback Failed">>]

\* The report of a restore whose extraction failed; raised is kept
RollbackReport(raised, moved_back, item, src, snapshot, extracted) ==
    LET out == RollbackOutcome(raised, moved_back)
    IN  [RestoreReport(out.result, item, src, snapshot, extracted, out.reports)
            EXCEPT !.raised = raised]

NoArchive == Archive(NoFile, <<>>, FALSE, {})

BackupNames == {<<"b","1">> \o ExtZip}

N_s1 == <<"s","1">>
N_s2 == <<"s","2">>
N_s3 == <<"s","3">>
N_d == <<"d">>
N_y == <<"y">>

\* An archive from elsewhere with a name that climbs out of the target
ZipEscaping ==
    SourceFile(<<"h">> \o ExtZip, TRUE,
               <<Member(<<ParDir, N_x>>, FALSE, "8"),
                 Member(<<N_y>>, FALSE, "9")>>, "")

ExternalArchives ==
    {Archive(ZipEscaping, <<>>, FALSE, {}), Archive(ZipInvalid, <<>>, FALSE, {})}

\* Where asksaveasfilename (lines 619-624) lets the user put the archive:
\* any folder, the folder that is backed up among them
BackupPlaces == {"elsewhere", "target"}

\* line 633: zipfile.ZipFile(archive_path, 'w') creates the archive file,
\* or truncates the file at that path, before os.walk lists the folder;
\* the file stays when the backup fails (lines 646-648 remove nothing).
\* What an archive holds that was read while it was written is left open.
ArchiveInTarget(f, source_path, archive_name) ==
    WriteFile(f, get_sims4_user_data_path(f) \o <<source_path, archive_name>>,
              "z").fs

\* The button "Backup Saves" (lines 725-726), for the places the user
\* may answer the dialog with
backup_items(places) ==
    \E source_path \in Items, archive_name \in BackupNames \cup {<<>>},
       place \in places, fault_at \in 0..MaxFaultAt :
        \E r \in {perform_backup(fs, source_path, archive_name, fault_at)} :
            /\ \A a \in archives : a.file.name # archive_name
            /\ IF place = "target" /\ r.archive # {}
               THEN /\ fs' = ArchiveInTarget(fs, source_path, archive_name)
                    /\ UNCHANGED archives
               ELSE /\ archives' = {a \in archives :
                                       \A n \in r.archive : a.file.name # n.file.name}
                                   \cup r.archive
                    /\ UNCHANGED fs
            /\ last' = [op |-> "backup", result |-> r.result, item |-> source_path,
                        archive |-> archive_name,
                        place |-> IF r.archive = {} THEN "none" ELSE place]
            /\ prev' = Remember(last)
            /\ pre_fs' = fs
            /\ UNCHANGED <<now, game_path_var, current_dlc_list, dlc_scanned_in,
                           current_mod_list, dlc_sel, mod_sel>>

\* A backup by a user who keeps the archives out of the managed folders
Backup == backup_items({"elsewhere"})

\* A backup to any place
BackupAnywhere == backup_items(BackupPlaces)

\* lines 699-703: the Mods list is rebuilt after a restore of Mods
AfterRestore(f, item, result) ==
    IF result = "success" /\ item = ModsName
    THEN \E s \in populate_mods_listbox(f, "none") :
            current_mod_list' = s.list /\ mod_sel' = 0
    ELSE UNCHANGED <<current_mod_list, mod_sel>>

\* The end of a restore: the filesystem it leaves and its report
RestoreEnds(f, report) ==
    /\ \A q \in DOMAIN f : Len(q) <= MaxDepth
    /\ fs' = f
    /\ last' = report
    /\ AfterRestore(f, report.item, report.result)

\* lines 705-721: the rollback after a failed extraction
Rollback(f, item, src, target_path, snapshot, extracted, faults) ==
    \E rm_fault \in (IF IsDir(f, target_path) THEN faults.rm ELSE {"none"}) :
    \E rm \in {IF IsDir(f, target_path) THEN shutil_rmtree(f, target_path, rm_fault)
               ELSE [fs |-> f, err |-> "none"]} :
        IF rm.err # "none"
        THEN RestoreEnds(rm.fs, RollbackReport(rm.err, FALSE, item, src, snapshot,
                                               extracted))
        ELSE IF snapshot # <<>> /\ IsDir(rm.fs, snapshot)
        THEN \E back_fault \in faults.move :
             \E back \in {shutil_move(rm.fs, snapshot, target_path, back_fault)} :
                RestoreEnds(back.fs, RollbackReport(back.err, back.err = "none", item,
                                                    src, snapshot, extracted))
        ELSE RestoreEnds(rm.fs, RollbackReport("none", FALSE, item, src, snapshot,
                                               extracted))

\* lines 688-698: the extraction, and the rollback if it raises
Extract(f, item, src, target_path, snapshot, faults) ==
    \E refused \in faults.extract :
    \E x \in {ExtractInto(f, src.file.members, target_path,
                          IF refused THEN Len(src.file.members) ELSE 0)} :
        IF x.err = "none"
        THEN RestoreEnds(x.fs, RestoreReport("success", item, src, snapshot, x.extracted,
                            <<"Restore Complete">>))
        ELSE Rollback(x.fs, item, src, target_path, snapshot, x.extracted, faults)

\* lines 673-686: the target is moved aside to the snapshot
MoveAside(item, src, sims4_user_path, target_path, faults) ==
    IF ~Exists(fs, target_path)
    THEN Extract(fs, item, src, target_path, <<>>, faults)
    ELSE \E pre_restore_backup_path \in {SnapshotPath(sims4_user_path, item, now)} :
         \E move_fault \in faults.move :
         \E moved \in {shutil_move(fs, target_path, pre_restore_backup_path, move_fault)} :
            IF moved.err # "none"
            THEN RestoreEnds(moved.fs, RestoreReport("aborted", item, src,
                                pre_restore_backup_path, {}, <<"Restore Error">>))
            ELSE Extract(moved.fs, item, src, target_path, pre_restore_backup_path, faults)

\* A restore that does not look at the archive before it moves the target
restore_items_unvalidated(items, faults) ==
    \E item \in items, src \in archives \cup {NoArchive} :
        /\ prev' = Remember(last)
        /\ pre_fs' = fs
        /\ UNCHANGED <<now, archives, game_path_var,
                       current_dlc_list, dlc_scanned_in, dlc_sel>>
        /\ LET sims4_user_path == get_sims4_user_data_path(fs)
               target_path == Append(sims4_user_path, item)
               quiet(result, reports) ==
                   RestoreEnds(fs, RestoreReport(result, item, src, <<>>, {}, reports))
           IN  IF sims4_user_path = <<>> THEN quiet("no_user_path", <<"Error">>)
               ELSE IF src = NoArchive THEN quiet("cancelled", <<>>)
               ELSE \E confirm \in BOOLEAN :
                    IF ~confirm THEN quiet("declined", <<>>)
                    ELSE MoveAside(item, src, sims4_user_path, target_path, faults)

\* _perform_backup_restore("restore", ...), lines 650-721, for the folders
\* in items
restore_items(items, faults) ==
    \E item \in items, src \in archives \cup {NoArchive} :
        /\ prev' = Remember(last)
        /\ pre_fs' = fs
        /\ UNCHANGED <<now, archives, game_path_var,
                       current_dlc_list, dlc_scanned_in, dlc_sel>>
        /\ LET sims4_user_path == get_sims4_user_data_path(fs)
               target_path == Append(sims4_user_path, item)
               quiet(result, reports) ==
                   RestoreEnds(fs, RestoreReport(result, item, src, <<>>, {}, reports))
           IN  IF sims4_user_path = <<>> THEN quiet("no_user_path", <<"Error">>)
               ELSE IF src = NoArchive THEN quiet("cancelled", <<>>)
               ELSE IF ~src.file.valid THEN quiet("invalid", <<"Invalid File">>)
               ELSE \E confirm \in BOOLEAN :
                    IF ~confirm THEN quiet("declined", <<>>)
                    ELSE MoveAside(item, src, sims4_user_path, target_path, faults)

perform_restore(faults) == restore_items(Items, faults)

\* The button "Restore Saves"
Restore == perform_restore(AllFaults)

\* The button "Restore Saves" while the operating system refuses nothing
RestoreUnhindered == perform_restore(NoFaults)

\* A second passes
Tick ==
    /\ now < MaxNow
    /\ now' = now + 1
    /\ UNCHANGED <<fs, archives, game_path_var,
                   current_dlc_list, dlc_scanned_in, current_mod_list,
                   dlc_sel, mod_sel, last, prev, pre_fs>>

\* A saves folder with a file and a folder named like a snapshot, which
\* holds a file and a subfolder; the Mods folder was never made.
ArchiveFS ==
    LET nested == Append(SavesPath, SavesName \o PreRestore \o <<"9">>)
    IN  MkFS(BaseDirs \cup {SavesPath, nested, Append(nested, N_d)},
             {<<Append(SavesPath, N_s1), "1">>, <<Append(nested, N_s2), "2">>,
              <<nested \o <<N_d, N_s3>>, "3">>})

InitArchive ==
    /\ fs = ArchiveFS
    /\ now = 0
    /\ archives = ExternalArchives
    /\ game_path_var = <<>>
    /\ current_dlc_list = <<>>
    /\ dlc_scanned_in = game_path_var
    /\ current_mod_list \in {r.list : r \in populate_mods_listbox(fs, "none")}
    /\ dlc_sel = 0
    /\ mod_sel = 0
    /\ last = [op |-> "init", result |-> "ok"]
    /\ prev = [op |-> "other", result |-> "none"]
    /\ pre_fs = fs

NextRestore ==
    \/ Restore
    \/ Tick

SpecRestore == InitArchive /\ [][NextRestore]_vars

NextRoundTrip ==
    \/ Backup
    \/ RestoreUnhindered
    \/ Tick

SpecRoundTrip == InitArchive /\ [][NextRoundTrip]_vars

---------------------------------------------------------------------------
(* Claims about restore, checked under SpecRestore and SpecRoundTrip *)

\* The archive a restore report names
ArchiveOf(l) == Only({a \in archives : a.file.name = l.archive})

\* The target of a restore report
TargetOf(l) == Append(SimsUserPath, l.item)

\* A folder with all it holds
FolderAt(f, p) == [q \in Subtree(f, Key(p)) |-> f[q]]

\* The last handler was a restore whose extraction raised
ExtractionFailed ==
    /\ last.op = "restore"
    /\ last.result \in {"rolled_back", "rollback_failed", "critical"}

\* C4: when a restore into a target that existed fails during extraction
\* and no step of the rollback fails, the target holds what it held before
\* the restore, the snapshot of this restore is gone, and the reports are
\* the extraction failure followed by the completed rollback.
C4_RollbackRestoresTarget ==
    (/\ ExtractionFailed
     /\ last.result # "critical"
     /\ Exists(pre_fs, TargetOf(last))) =>
        /\ FolderAt(fs, TargetOf(last)) = FolderAt(pre_fs, TargetOf(last))
        /\ ~Exists(fs, last.snapshot)
        /\ last.reports = <<"Restore Failed", "Rollback">>

\* C4: the case happens: an extraction into a target that existed failed
\* after it had written a member, and the rollback ran to its end.
C4_Witness ==
    /\ ExtractionFailed
    /\ last.result = "rolled_back"
    /\ last.extracted # {}
    /\ Exists(pre_fs, TargetOf(last))

\* The last handler was a restore that reached the extraction
Extracting ==
    /\ last.op = "restore"
    /\ last.result \in {"success", "rolled_back", "rollback_failed", "critical"}

\* Whether the resolved destination of a member leaves the target root
Escapes(target_path, member) ==
    ~IsPrefix(Key(target_path), Key(target_path \o member.filename))

\* C6: during a restore every member whose resolved destination escapes
\* the target root is passed over, is reported as such, and is not
\* extracted anywhere.
C6_EscapingMembersSkipped ==
    Extracting =>
        \A i \in 1..Len(ArchiveOf(last).file.members) :
            Escapes(TargetOf(last), ArchiveOf(last).file.members[i]) =>
                i \notin last.extracted /\ i \in last.skipped

\* C6: the case happens: an archive with an escaping member was restored.
C6_Witness ==
    /\ Extracting
    /\ last.result = "success"
    /\ \E i \in 1..Len(ArchiveOf(last).file.members) :
        Escapes(TargetOf(last), ArchiveOf(last).file.members[i])

\* The snapshot folders of an item next to its target
Snapshots(f, item) ==
    {q \in Children(f, Key(SimsUserPath)) :
        f[q].kind = "dir" /\ StartsWith(f[q].name, item \o PreRestore)}

\* The last handler restored, to the end, an archive that a backup of the
\* same folder had written to the end
RoundTrip ==
    /\ last.op = "restore" /\ last.result = "success"
    /\ ArchiveOf(last).complete
    /\ ArchiveOf(last).item = last.item

\* C9: a backup of a folder followed by a restore of that archive into the
\* same target leaves at the target the relative file paths and contents
\* the folder held when it was backed up, and when the target existed
\* before the restore, the restore leaves exactly one snapshot folder.
C9_BackupRestoreRoundTrip ==
    RoundTrip =>
        /\ Tree(fs, TargetOf(last)) = ArchiveOf(last).tree
        /\ Exists(pre_fs, TargetOf(last)) =>
            Cardinality(Snapshots(fs, last.item) \ Snapshots(pre_fs, last.item)) = 1

\* C9: the case happens: a backup archive was restored into a target that
\* existed.
C9_Witness == RoundTrip /\ Exists(pre_fs, TargetOf(last))

---------------------------------------------------------------------------
(* Claims about the order of the DLC list, checked under Spec *)

\* The place of an item's category in the precedence FP, EP, GP, SP, KP
\* (the comment on line 156); any other name comes last
CategoryRank(x) ==
    LET order == << <<"F","P">>, <<"E","P">>, <<"G","P">>, <<"S","P">>, <<"K","P">> >>
        hits == {i \in 1..Len(order) : StartsWith(x.original_name, order[i])}
    IN  IF hits = {} THEN Len(order) + 1
        ELSE CHOOSE i \in hits : \A j \in hits : i <= j

\* The DLC list holds the result of a scan
DlcScanned ==
    \/ last.op \in {"init", "refresh_dlc"}
    \/ last.op = "toggle_dlc" /\ last.result = "success"

\* C11: the list scan_dlc returns is ordered by category in the precedence
\* FP, EP, GP, SP, KP, and within one category alphabetically by
\* original_name.
C11_DlcOrder ==
    DlcScanned =>
        \A i, j \in 1..Len(current_dlc_list) :
            i < j =>
                /\ CategoryRank(current_dlc_list[i]) <= CategoryRank(current_dlc_list[j])
                /\ CategoryRank(current_dlc_list[i]) = CategoryRank(current_dlc_list[j])
                    => ~StrLess(current_dlc_list[j].original_name,
                                current_dlc_list[i].original_name)

\* C11: the case happens: a scan returned items of two categories.
C11_Witness ==
    /\ DlcScanned
    /\ \E i, j \in 1..Len(current_dlc_list) :
        CategoryRank(current_dlc_list[i]) # CategoryRank(current_dlc_list[j])

---------------------------------------------------------------------------
(* The Mods folder across restores and installs *)

\* The button "Restore Mods" (lines 734-735)
RestoreMods == restore_items({ModsName}, AllFaults)

\* The button "Install New Mod..." with a file that is not installed: of
\* another type, not a zip archive, or none
InstallRejected == InstallFrom({PlainOther, ZipInvalid, NoFile})

\* The Mods folder was there when the lists were populated, which enabled
\* the buttons of the Mods tab (lines 538-540); they stay enabled until
\* the list is populated without it.
InitModsFolder ==
    /\ fs = InstallFS2
    /\ now = 0
    /\ archives = ExternalArchives
    /\ game_path_var = <<>>
    /\ current_dlc_list = <<>>
    /\ dlc_scanned_in = game_path_var
    /\ current_mod_list \in {r.list : r \in populate_mods_listbox(fs, "none")}
    /\ dlc_sel = 0
    /\ mod_sel = 0
    /\ last = [op |-> "init", result |-> "ok"]
    /\ prev = [op |-> "other", result |-> "none"]
    /\ pre_fs = fs

NextModsFolder ==
    \/ RestoreMods
    \/ InstallRejected
    \/ Tick

SpecModsFolder == InitModsFolder /\ [][NextModsFolder]_vars

\* C12: an install whose source is neither a .zip nor a .package or
\* .ts4script file is rejected as unsupported and leaves the filesystem as
\* it was: nothing, the Mods folder included, is created, modified or
\* removed.
C12_UnsupportedNoEffect ==
    (last.op = "install" /\ last.source = PlainOther.name) =>
        /\ last.result = "unsupported"
        /\ fs = pre_fs

\* C12: the case happens: a file of another type was picked while the
\* Mods folder existed, and was rejected.
C12_Witness ==
    /\ last.op = "install" /\ last.result = "unsupported"
    /\ IsDir(pre_fs, ModsPath)

---------------------------------------------------------------------------
(* Claims about the rollback, checked under SpecRestore *)

\* C13: when, after a failed extraction, a step of the rollback (the
\* removal of the partial target or the move of the snapshot back) fails,
\* the restore ends in the critical report, which comes after the report
\* of the extraction failure and is neither that report nor the report of
\* a completed rollback; nothing reports success or a completed rollback.
C13_RollbackFailureIsCritical ==
    (ExtractionFailed /\ last.raised # "none") =>
        /\ last.result = "critical"
        /\ last.reports[Len(last.reports)] = "Critical Rollback Error"
        /\ \A i \in 1..Len(last.reports) :
            last.reports[i] \notin {"Restore Complete", "Rollback", "Rollback Failed"}

\* C13: the case happens: the partial target was removed and the move of
\* the snapshot back was refused.
C13_Witness ==
    /\ ExtractionFailed /\ last.raised # "none"
    /\ Exists(fs, last.snapshot)
    /\ ~Exists(fs, TargetOf(last))

---------------------------------------------------------------------------
(* Claims about the failure modes of the scanners, checked under Spec *)

\* The last handler was a scan of a root that is missing
DlcRootMissing ==
    last.op = "refresh_dlc" /\ (game_path_var = <<>> \/ ~IsDir(fs, game_path_var))
ModsRootMissing == last.op = "refresh_mods" /\ ~IsDir(fs, ModsPath)

\* The last handler was a scan whose os.listdir was denied
DlcScanDenied == last.op = "refresh_dlc" /\ last.result = "PermissionError"
ModsScanDenied == last.op = "refresh_mods" /\ last.fault = "PermissionError"

\* C14: for scan_dlc and scan_mods alike, a scan of a missing root returns
\* the empty list and reports the root as not found; a scan that is denied
\* the listing of the root returns the empty list and reports a permission
\* condition that is neither the not-found condition nor the generic scan
\* error.
C14_ScanFailureModes ==
    /\ DlcRootMissing => current_dlc_list = <<>> /\ last.result = "invalid"
    /\ ModsRootMissing => current_mod_list = <<>> /\ last.result = "not_found"
    /\ DlcScanDenied =>
        /\ current_dlc_list = <<>>
        /\ last.result \notin {"invalid", "FileNotFoundError", "OSError"}
    /\ ModsScanDenied =>
        /\ current_mod_list = <<>>
        /\ last.result \notin {"not_found", "error"}

\* C14: the case happens: a scan of the Mods folder was denied the listing.
C14_Witness == ModsScanDenied /\ IsDir(fs, ModsPath)

---------------------------------------------------------------------------
(* Claims about the contents of a backup, checked under SpecRoundTrip *)

\* The archives that a backup wrote to the end
BackupArchives == {a \in archives : a.complete}

\* The files of an archive: relative path and data
ArchivedFiles(a) ==
    {<<a.file.members[i].filename, a.file.members[i].data>> :
        i \in 1..Len(a.file.members)}

\* Whether a relative path passes through a folder named as a snapshot of
\* the item
UnderSnapshot(rel, item) ==
    \E i \in 1..(Len(rel) - 1) : StartsWith(rel[i], item \o PreRestore)

\* C15: a backup archive holds no file that lies beneath a folder, inside
\* the backup root, whose name starts with "<root>_pre_restore_", at
\* whatever depth; every other file under the root is in the archive under
\* its path relative to the root.
C15_BackupOmitsSnapshots ==
    \A a \in BackupArchives :
        ArchivedFiles(a) = {e \in a.tree : ~UnderSnapshot(e[1], a.item)}

\* C15: the case happens: a folder was backed up that held a file in a
\* subfolder of a folder named as a snapshot.
C15_Witness ==
    \E a \in BackupArchives :
        \E e \in a.tree :
            /\ UnderSnapshot(e[1], a.item)
            /\ ~StartsWith(e[1][Len(e[1]) - 1], a.item \o PreRestore)

---------------------------------------------------------------------------
(* Claims about the steps of a restore, checked under SpecRestore *)

\* The last handler was a restore that ended before the target was touched:
\* no file picked, not a zip archive, or the confirmation declined
RestoreRefused ==
    /\ last.op = "restore"
    /\ last.result \in {"cancelled", "invalid", "declined"}

\* C16: a restore validates, asks, moves the target aside and extracts, in
\* that order: the filesystem changes only in a restore of a valid archive
\* that the user confirmed; a restore without a file, of an invalid
\* archive or declined leaves the filesystem as it was; a restore whose
\* move of the target fails extracts nothing; and nothing is extracted
\* into a target that existed unless it was moved aside first.
C16_RestoreStepOrder ==
    (last.op = "restore") =>
        /\ RestoreRefused => fs = pre_fs /\ last.extracted = {}
        /\ (last.archive = <<>>) => last.result \in {"cancelled", "no_user_path"}
        /\ (last.archive # <<>> /\ ~ArchiveOf(last).file.valid)
            => last.result \in {"invalid", "no_user_path"}
        /\ (fs # pre_fs) =>
            /\ last.archive # <<>>
            /\ ArchiveOf(last).file.valid
            /\ ~RestoreRefused
        /\ (last.result = "aborted") =>
            /\ last.extracted = {}
            /\ Tree(fs, TargetOf(last)) \subseteq Tree(pre_fs, TargetOf(last))
        /\ (Extracting /\ Exists(pre_fs, TargetOf(last))) => last.snapshot # <<>>

\* C16: the case happens: the move of the target aside failed and the
\* restore was aborted.
C16_Witness == last.op = "restore" /\ last.result = "aborted"

---------------------------------------------------------------------------
(* Claims about the snapshot of a restore, checked under SpecRestore *)

\* The folders and files below a folder, by relative path
Contents(f, root) ==
    {<<RelPath(f, Key(root), q), f[q].kind, IF f[q].kind = "file" THEN f[q].data ELSE "">> :
        q \in Subtree(f, Key(root)) \ {Key(root)}}

\* C17: a restore that reaches the extraction with a target that existed
\* has moved the target aside to a snapshot path that did not exist
\* before; after a successful restore the snapshot holds exactly what the
\* target held before; and a restore whose target did not exist makes no
\* snapshot.
C17_SnapshotIsNew ==
    Extracting =>
        /\ Exists(pre_fs, TargetOf(last)) =>
            /\ last.snapshot # <<>>
            /\ ~Exists(pre_fs, last.snapshot)
            /\ (last.result = "success") =>
                /\ IsDir(fs, last.snapshot)
                /\ Contents(fs, last.snapshot) = Contents(pre_fs, TargetOf(last))
        /\ ~Exists(pre_fs, TargetOf(last)) =>
            /\ last.snapshot = <<>>
            /\ Snapshots(fs, last.item) = Snapshots(pre_fs, last.item)

\* C17: the case happens: a second restore in succession succeeded on a
\* target that existed.
C17_Witness ==
    /\ Extracting /\ last.result = "success"
    /\ Exists(pre_fs, TargetOf(last))
    /\ Snapshots(pre_fs, last.item) # {}

---------------------------------------------------------------------------
(* Claims about the rollback without a snapshot, checked under SpecRestore *)

\* The last handler was a restore into a target that did not exist, whose
\* extraction failed and whose rollback raised nothing
FailedWithoutSnapshot ==
    /\ ExtractionFailed
    /\ ~Exists(pre_fs, TargetOf(last))
    /\ last.raised = "none"

\* C18: when the target did not exist before the restore and the
\* extraction fails, the rollback removes the partially extracted target,
\* so that the target path does not exist, as before, and changes nothing
\* else; this is reported as a completed rollback and not as a failure of
\* the rollback.
C18_RollbackWithoutSnapshot ==
    FailedWithoutSnapshot =>
        /\ ~Exists(fs, TargetOf(last))
        /\ fs = pre_fs
        /\ last.result # "rollback_failed"
        /\ \A i \in 1..Len(last.reports) : last.reports[i] # "Rollback Failed"

\* C18: the case happens: an extraction into a target that did not exist
\* failed after it had written a member, and the target was removed.
C18_Witness ==
    /\ FailedWithoutSnapshot
    /\ last.extracted # {}

---------------------------------------------------------------------------
(* Claims about the list after a toggle, checked under Spec *)

\* The last handler was a toggle that handed an item of its list to the
\* backend
ToggleAttempted ==
    /\ last.op \in {"toggle_dlc", "toggle_mod"}
    /\ last.result \notin {"no_selection", "out_of_bounds"}

\* The row the last toggle was started from is still selected, so that
\* the next click on the button toggles the same row of the list
StillSelected ==
    \/ last.op = "toggle_dlc" /\ dlc_sel # 0 /\ dlc_sel <= Len(current_dlc_list)
    \/ last.op = "toggle_mod" /\ mod_sel # 0 /\ mod_sel <= Len(current_mod_list)

\* C19: after every outcome of a toggle, success or failure, the handler
\* has rebuilt its list by a fresh scan, so that the next toggle never
\* uses a descriptor obtained before this attempt.
C19_RescanAfterToggle == ToggleAttempted => last.rescanned

\* C19: the case happens: a toggle failed and its row is still selected,
\* ready for the next toggle.
C19_Witness ==
    /\ ToggleAttempted
    /\ last.result # "success"
    /\ StillSelected

---------------------------------------------------------------------------
(* Claims about the scan of the Mods folder, checked under Spec *)

\* The last handler was a refresh of the Mods tab whose scan completed
ModsScanned == last.op = "refresh_mods" /\ last.result = "ok"

\* The entries of the filesystem a scan of the Mods folder has to list:
\* immediate children, not named resource.cfg, that are folders or files
\* with one of the two extensions
Manageable(f) ==
    {q \in DOMAIN f :
        /\ DirName(q) = Key(ModsPath)
        /\ Lower(f[q].name) # ResourceCfg
        /\ \/ f[q].kind = "dir"
           \/ /\ f[q].kind = "file"
              /\ \/ EndsWith(Lower(f[q].name), ExtPackage)
                 \/ EndsWith(Lower(f[q].name), ExtScript)}

\* C20: scan_mods returns exactly the immediate children of the Mods
\* folder that are files with the extension .package or .ts4script, in
\* any letter case, or folders, without any entry named resource.cfg in
\* any letter case; nothing below a subfolder is listed; the list is in
\* the case-insensitive order of the names on disk.
C20_ModsScanExact ==
    ModsScanned =>
        /\ Len(current_mod_list) = Cardinality(Manageable(fs))
        /\ {Key(current_mod_list[i].path) : i \in 1..Len(current_mod_list)}
               = Manageable(fs)
        /\ \A i \in 1..Len(current_mod_list) :
               /\ current_mod_list[i].path
                      = Append(ModsPath, current_mod_list[i].name)
               /\ current_mod_list[i].name
                      = fs[Key(current_mod_list[i].path)].name
        /\ \A i, j \in 1..Len(current_mod_list) :
               i < j => ~StrLess(Lower(current_mod_list[j].name),
                                 Lower(current_mod_list[i].name))

\* C20: the case happens: a scan listed a file with an upper-case
\* extension before a folder, in a Mods folder that holds Resource.cfg
\* and a package inside the folder.
C20_Witness ==
    /\ ModsScanned
    /\ \E i, j \in 1..Len(current_mod_list) :
           /\ i < j
           /\ current_mod_list[i].type = "file"
           /\ current_mod_list[i].name # Lower(current_mod_list[i].name)
           /\ current_mod_list[j].type = "folder"
           /\ \E q \in DOMAIN fs :
                  /\ DirName(q) = Key(current_mod_list[j].path)
                  /\ EndsWith(fs[q].name, ExtPackage)
    /\ \E q \in DOMAIN fs :
           DirName(q) = Key(ModsPath) /\ Lower(fs[q].name) = ResourceCfg

---------------------------------------------------------------------------
(* Claims about the scan of the game folder, checked under Spec *)

\* The last handler was a refresh of the DLC tab whose scan completed
DlcScanCompleted == last.op = "refresh_dlc" /\ last.result = "ok"

\* A name without one trailing marker, when it has one
StripOnce(name) ==
    IF Len(name) >= Len(DISABLED_SUFFIX)
       /\ SubSeq(name, Len(name) - Len(DISABLED_SUFFIX) + 1, Len(name))
              = DISABLED_SUFFIX
    THEN SubSeq(name, 1, Len(name) - Len(DISABLED_SUFFIX))
    ELSE name

\* The entries of the filesystem a scan of the game folder has to list:
\* immediate children that are folders, hold something, and whose name
\* without one marker starts with a DLC prefix
DlcFolders(f, game_path) ==
    {q \in DOMAIN f :
        /\ DirName(q) = Key(game_path)
        /\ f[q].kind = "dir"
        /\ \E c \in DOMAIN f : DirName(c) = q
        /\ Len(StripOnce(f[q].name)) >= 2
        /\ SubSeq(StripOnce(f[q].name), 1, 2)
               \in {<<"E","P">>, <<"G","P">>, <<"S","P">>, <<"F","P">>, <<"K","P">>}}

\* C21: scan_dlc returns exactly the immediate child folders of the game
\* folder that are not empty and whose name, without at most one trailing
\* "_disabled", starts with EP, GP, SP, FP or KP; no file, empty folder
\* or folder of another name is returned; one marker is stripped and
\* never more; the scan changes nothing on disk.
C21_DlcScanExact ==
    /\ last.op = "refresh_dlc" => fs = pre_fs
    /\ DlcScanCompleted =>
        /\ Len(current_dlc_list) = Cardinality(DlcFolders(fs, game_path_var))
        /\ {Key(Append(game_path_var, current_dlc_list[i].folder)) :
                i \in 1..Len(current_dlc_list)} = DlcFolders(fs, game_path_var)
        /\ \A i \in 1..Len(current_dlc_list) :
            LET x == current_dlc_list[i]
            IN  /\ x.folder = fs[Key(Append(game_path_var, x.folder))].name
                /\ x.original_name = StripOnce(x.folder)
                /\ x.status = (IF x.original_name = x.folder
                               THEN "Enabled" ELSE "Disabled")

\* C21: the case happens: a scan listed a folder that carries the marker
\* twice, in a game folder that also holds a file and an empty folder
\* with DLC names.
C21_Witness ==
    /\ DlcScanCompleted
    /\ \E i \in 1..Len(current_dlc_list) :
           EndsWith(current_dlc_list[i].original_name, DISABLED_SUFFIX)
    /\ \E q \in DOMAIN fs :
           /\ DirName(q) = Key(game_path_var)
           /\ fs[q].kind = "file"
           /\ LooksLikeDlc(fs[q].name)
    /\ \E q \in DOMAIN fs :
           /\ DirName(q) = Key(game_path_var)
           /\ fs[q].kind = "dir"
           /\ LooksLikeDlc(fs[q].name)
           /\ ~\E c \in DOMAIN fs : DirName(c) = q

---------------------------------------------------------------------------
(* Backups to any place, with and without a folder to back up *)

\* The user folder without a saves folder
NoSavesFS == MkFS(BaseDirs, {})

\* The saves folder is there, or it is not, or the game never ran
InitBackup ==
    /\ fs \in {ArchiveFS, NoSavesFS, DlcFS1}
    /\ now = 0
    /\ archives = ExternalArchives
    /\ game_path_var = <<>>
    /\ current_dlc_list = <<>>
    /\ dlc_scanned_in = game_path_var
    /\ current_mod_list = <<>>
    /\ dlc_sel = 0
    /\ mod_sel = 0
    /\ last = [op |-> "init", result |-> "ok"]
    /\ prev = [op |-> "other", result |-> "none"]
    /\ pre_fs = fs

NextBackup ==
    \/ BackupAnywhere
    \/ RestoreUnhindered
    \/ Tick

SpecBackup == InitBackup /\ [][NextBackup]_vars

\* The archive files by name
ArchiveNames(as) == {a.file.name : a \in as}

\* The last handler was a backup that found no folder to back up
BackupWithoutRoot ==
    last.op = "backup" /\ last.result \in {"no_user_path", "not_found"}

\* The last handler was a backup that failed while it wrote the members
BackupFailedWriting == last.op = "backup" /\ last.result = "failed"

\* The folder a backup is taken of, in a filesystem
BackedUp(f, item) == get_sims4_user_data_path(f) \o <<item>>

\* C22: a backup whose folder does not exist fails and creates no archive
\* file; a backup that fails while writing reports the failure and leaves
\* the part of the archive it wrote; every backup leaves the tree of the
\* folder it backs up as it was.
C22_BackupLeavesTree ==
    /\ BackupWithoutRoot =>
        /\ fs = pre_fs
        /\ \A a \in archives : a.file.name # last.archive
    /\ BackupFailedWriting =>
        \/ last.place = "elsewhere" /\ last.archive \in ArchiveNames(archives)
        \/ last.place = "target"
               /\ IsFile(fs, Append(BackedUp(fs, last.item), last.archive))
    /\ last.op = "backup" =>
        /\ Exists(fs, BackedUp(fs, last.item)) = Exists(pre_fs, BackedUp(pre_fs, last.item))
        /\ Exists(fs, BackedUp(fs, last.item)) =>
               Contents(fs, BackedUp(fs, last.item))
                   = Contents(pre_fs, BackedUp(pre_fs, last.item))

\* C22: the case happens: a backup whose archive the user put into the
\* folder that is backed up ran to its end.
C22_Witness ==
    /\ last.op = "backup"
    /\ last.result = "success"
    /\ last.place = "target"

---------------------------------------------------------------------------
(* Claims about what a restore keeps, checked under SpecRestore *)

\* The last handler was a restore into a target that existed before
RestoredOver == last.op = "restore" /\ Exists(pre_fs, TargetOf(last))

\* Every file the target held before the last handler is held by the
\* folder root now, at the same relative path and with the same data
PriorContentsAt(root) ==
    /\ IsDir(fs, root)
    /\ Tree(pre_fs, TargetOf(last)) \subseteq Tree(fs, root)

\* C23: no restore loses data: after a restore whose target existed
\* before, whatever its outcome (extraction failure, rollback, failed
\* rollback, restores in succession), everything the target held before
\* is on disk, at the target path or in the snapshot folder of this
\* restore.
C23_NoDataLoss ==
    RestoredOver =>
        \/ PriorContentsAt(TargetOf(last))
        \/ last.snapshot # <<>> /\ PriorContentsAt(last.snapshot)

\* C23: the case happens: the extraction into a target that existed
\* failed and a step of the rollback was refused.
C23_Witness ==
    /\ RestoredOver
    /\ last.result = "critical"
    /\ Tree(pre_fs, TargetOf(last)) # {}

---------------------------------------------------------------------------
(* Claims about the selection after a toggle, checked under Spec *)

\* The last handler was a toggle that renamed its item and whose rescan
\* completed
ToggledAndRescanned ==
    /\ IsToggle(last)
    /\ last.result = "success"
    /\ last.scan = "ok"

\* The path of the entry at the row the last toggle selected again; <<>>
\* when the list has no such row
ReselectedPath ==
    IF last.op = "toggle_dlc"
    THEN IF last.index \in 1..Len(current_dlc_list)
         THEN Append(game_path_var, current_dlc_list[last.index].folder)
         ELSE <<>>
    ELSE IF last.index \in 1..Len(current_mod_list)
         THEN current_mod_list[last.index].path
         ELSE <<>>

\* C24: after a successful toggle the list is rescanned and the entry
\* selected again, at the index the toggled entry had, is the entry on
\* disk that was just renamed, so that the next toggle acts on it; for the
\* DLC list and for the Mods list, whatever else the folder holds.
C24_ReselectsToggledItem ==
    ToggledAndRescanned =>
        /\ last.rescanned
        /\ ReselectedPath # <<>>
        /\ Key(ReselectedPath) = Key(last.dst)

\* C24: the case happens: a mod was toggled in a folder that holds
\* another mod, and the list was rebuilt.
C24_Witness ==
    /\ ToggledAndRescanned
    /\ last.op = "toggle_mod"
    /\ Len(current_mod_list) > 1

---------------------------------------------------------------------------
(* The game path: the entry field and the Browse button *)

\* A second folder with DLC folders, and a path that names nothing
OtherGamePath == <<<<"H">>>>
NoGamePath == <<<<"N">>>>
N_Game == <<"G","a","m","e">>

\* What the user can type into the path field or pick in the dialog
GamePaths == {GamePath, OtherGamePath, NoGamePath}

\* Two game folders that hold a folder of the same name; only the first
\* has the subfolder "Game"
TwoGamesFS ==
    LET folders == In(GamePath, {N_EP01, N_Game})
                   \cup In(OtherGamePath, {N_EP01, N_GP02 \o DISABLED_SUFFIX})
    IN  MkFS({GamePath, OtherGamePath} \cup folders, Filled(folders))

\* The user edits the path field (path_entry, lines 849-851): the entry is
\* bound to game_path_var and nothing is called when its text changes.
EditGamePath ==
    \E new_path \in GamePaths :
        /\ new_path # game_path_var
        /\ game_path_var' = new_path
        /\ UNCHANGED <<fs, now, archives, current_dlc_list, dlc_scanned_in,
                       current_mod_list, dlc_sel, mod_sel, last, prev, pre_fs>>

\* browse_game_path, lines 416-431; <<>> is a cancelled dialog.  The
\* configuration file written on lines 429-431 is not part of the model.
BrowseGamePath ==
    \E new_path \in GamePaths \cup {<<>>}, confirm \in BOOLEAN, fault \in ScanFaults :
        /\ prev' = Remember(last)
        /\ pre_fs' = fs
        /\ UNCHANGED <<fs, now, archives, current_mod_list, mod_sel>>
        /\ IF new_path # <<>> /\ IsDir(fs, new_path)
           THEN IF ~IsDir(fs, Append(new_path, N_Game)) /\ ~confirm
                THEN /\ last' = [op |-> "browse", result |-> "declined"]
                     /\ UNCHANGED <<game_path_var, current_dlc_list, dlc_scanned_in,
                                    dlc_sel>>
                ELSE \E r \in populate_dlc_listbox(fs, new_path, fault) :
                        /\ game_path_var' = new_path
                        /\ current_dlc_list' = r.list
                        /\ dlc_scanned_in' = new_path
                        /\ dlc_sel' = 0
                        /\ last' = [op |-> "browse", result |-> r.cond]
           ELSE /\ last' = [op |-> "browse",
                            result |-> IF new_path = <<>> THEN "cancelled"
                                       ELSE "invalid"]
                /\ UNCHANGED <<game_path_var, current_dlc_list, dlc_scanned_in,
                               dlc_sel>>

InitGamePath ==
    /\ fs = TwoGamesFS
    /\ now = 0
    /\ archives = {}
    /\ game_path_var = GamePath
    /\ current_dlc_list \in {r.list : r \in populate_dlc_listbox(fs, game_path_var, "none")}
    /\ dlc_scanned_in = game_path_var
    /\ current_mod_list = <<>>
    /\ dlc_sel = 0
    /\ mod_sel = 0
    /\ last = [op |-> "init", result |-> "ok"]
    /\ prev = [op |-> "other", result |-> "none"]
    /\ pre_fs = fs

NextGamePath ==
    \/ EditGamePath
    \/ BrowseGamePath
    \/ RefreshDlc
    \/ SelectDlc
    \/ ToggleSelectedDlc

SpecGamePath == InitGamePath /\ [][NextGamePath]_vars

\* C25: a DLC toggle renames an entry of the folder its list was scanned
\* in and of no other: whatever the user browses to or types into the
\* path field, with or without a refresh, the game path the toggle builds
\* the source and the target of the rename from is the path that
\* produced the descriptor it toggles.
C25_ToggleInScannedFolder ==
    (last.op = "toggle_dlc" /\ IsToggle(last)) =>
        /\ DirName(last.src) = last.scanned_in
        /\ DirName(last.dst) = last.scanned_in

\* C25: the case happens: a DLC was toggled with success after the game
\* path had been changed.
C25_Witness ==
    /\ last.op = "toggle_dlc"
    /\ IsToggle(last)
    /\ last.result = "success"
    /\ DirName(last.src) # GamePath

=============================================================================
